---------------------------- MODULE Spec2Model ----------------------------
(***************************************************************************)
(* State-machine model of CSankeyLicenseDecoder (native/sankey-decode):    *)
(* the verify() pipeline over the binary license envelope                  *)
(* IV(16) || MAC(32) || ciphertext, and the typed payload accessors gated  *)
(* by isVerified_.                                                         *)
(*                                                                         *)
(* Byte strings are sequences over 0..255, C strings are records           *)
(* [isNull, chars] whose chars are ASCII codes, JSON strings are sequences *)
(* of one-character strings.  The platform primitives the decoder calls    *)
(* (CryptStringToBinaryA, CryptoAPI HMAC and AES, nlohmann::json::parse)   *)
(* are modelled by what the decoder relies on: base64 is decoded sextet by *)
(* sextet, the MAC is a keyed digest of the whole message, AES-CBC is a    *)
(* keyed, IV-chained block transform with PKCS#7 padding, and the JSON     *)
(* parser is a table from plaintexts to documents.                         *)
(***************************************************************************)
EXTENDS Integers, Sequences, FiniteSets, TLC

(***************************************************************************)
(* Sizes fixed by the envelope layout.                                     *)
(***************************************************************************)
KeyLen == 32
IvLen == 16
MacLen == 32
HeaderLen == 48

Bytes(len, val) == [idx \in 1..len |-> val]

(***************************************************************************)
(* C strings (const char * ).                                              *)
(***************************************************************************)
NullPtr == [isNull |-> TRUE, chars |-> <<>>]
CStr(chars) == [isNull |-> FALSE, chars |-> chars]

(***************************************************************************)
(* Base64 (CRYPT_STRING_BASE64): 'A'..'Z' 'a'..'z' '0'..'9' '+' '/', with  *)
(* '=' padding in the last quantum only.                                   *)
(***************************************************************************)
PadChar == 61

B64Val(c) ==
    IF c >= 65 /\ c <= 90 THEN c - 65
    ELSE IF c >= 97 /\ c <= 122 THEN c - 71
    ELSE IF c >= 48 /\ c <= 57 THEN c + 4
    ELSE IF c = 43 THEN 62
    ELSE IF c = 47 THEN 63
    ELSE -1

B64Char(v) ==
    IF v < 26 THEN v + 65
    ELSE IF v < 52 THEN v + 71
    ELSE IF v < 62 THEN v - 4
    ELSE IF v = 62 THEN 43
    ELSE 47

\* One quantum of four characters; last is TRUE for the final quantum.
B64Quantum(q, last) ==
    LET v1 == B64Val(q[1])
        v2 == B64Val(q[2])
        v3 == B64Val(q[3])
        v4 == B64Val(q[4])
        p3 == q[3] = PadChar
        p4 == q[4] = PadChar
    IN  IF v1 < 0 \/ v2 < 0 THEN [ok |-> FALSE, out |-> <<>>]
        ELSE IF p3 /\ p4 /\ last
            THEN [ok |-> TRUE, out |-> <<v1 * 4 + (v2 \div 16)>>]
        ELSE IF v3 >= 0 /\ p4 /\ last
            THEN [ok |-> TRUE,
                  out |-> <<v1 * 4 + (v2 \div 16), (v2 % 16) * 16 + (v3 \div 4)>>]
        ELSE IF v3 >= 0 /\ v4 >= 0
            THEN [ok |-> TRUE,
                  out |-> <<v1 * 4 + (v2 \div 16), (v2 % 16) * 16 + (v3 \div 4),
                            (v3 % 4) * 64 + v4>>]
        ELSE [ok |-> FALSE, out |-> <<>>]

\* The quanta of a text in order; padding is accepted in the final quantum
\* only, so every other quantum yields three bytes.
B64Quanta(s) ==
    LET n == Len(s) \div 4
        quantum(k) == B64Quantum(SubSeq(s, 4 * k - 3, 4 * k), k = n)
    IN  IF Len(s) % 4 # 0 \/ \E k \in 1..n : ~quantum(k).ok
        THEN [ok |-> FALSE, out |-> <<>>]
        ELSE [ok |-> TRUE,
              out |-> [i \in 1..(3 * (n - 1)) |->
                          quantum(((i - 1) \div 3) + 1).out[((i - 1) % 3) + 1]]
                      \o (IF n = 0 THEN <<>> ELSE quantum(n).out)]

\* base64_decode(in, out): emptyOk is what the platform call answers for a
\* zero-length string, which the decoder does not fix.
base64_decode(in, emptyOk) ==
    IF in = <<>> THEN [ok |-> emptyOk, out |-> <<>>]
    ELSE B64Quanta(in)

\* The issuing side: the text a license generator hands out.
Base64Encode(b) ==
    LET n == Len(b) \div 3
        sextet(k, j) ==
            CASE j = 1 -> b[3 * k - 2] \div 4
              [] j = 2 -> (b[3 * k - 2] % 4) * 16 + (b[3 * k - 1] \div 16)
              [] j = 3 -> (b[3 * k - 1] % 16) * 4 + (b[3 * k] \div 64)
              [] OTHER -> b[3 * k] % 64
        b1 == b[3 * n + 1]
        b2 == b[3 * n + 2]
    IN  [i \in 1..(4 * n) |-> B64Char(sextet(((i - 1) \div 4) + 1, ((i - 1) % 4) + 1))]
        \o (IF Len(b) % 3 = 1
                THEN <<B64Char(b1 \div 4), B64Char((b1 % 4) * 16), PadChar, PadChar>>
            ELSE IF Len(b) % 3 = 2
                THEN <<B64Char(b1 \div 4), B64Char((b1 % 4) * 16 + (b2 \div 16)),
                       B64Char((b2 % 16) * 4), PadChar>>
            ELSE <<>>)

(***************************************************************************)
(* HMAC-SHA256 as a keyed digest: 32 bytes determined by the whole key and *)
(* the whole message, position-sensitive in both.                          *)
(***************************************************************************)
RECURSIVE DigestRange(_, _, _)
DigestRange(s, lo, hi) ==
    IF lo > hi THEN 0
    ELSE IF lo = hi THEN ((lo * 131 + 7) * (s[lo] + 1)) % 65521
    ELSE LET mid == (lo + hi) \div 2
         IN  (DigestRange(s, lo, mid) + DigestRange(s, mid + 1, hi)) % 65521

Digest(s) == (DigestRange(s, 1, Len(s)) + 257 * Len(s)) % 65521

MacTagOf(dk, dd) ==
    [mi \in 1..MacLen |-> (dd + mi * (dk + 1) + (dd \div 256) + (dk \div 256) * mi) % 256]

MacTag(key, data) == MacTagOf(Digest(key), Digest(key \o data))

\* hmac_sha256(key, data, mac): providerOk is whether the crypto provider
\* could be acquired and the hash created.
hmac_sha256(key, data, providerOk) ==
    IF providerOk THEN [ok |-> TRUE, mac |-> MacTag(key, data)]
    ELSE [ok |-> FALSE, mac |-> Bytes(MacLen, 0)]

(***************************************************************************)
(* AES-256-CBC with PKCS#7 padding as a keyed block transform chained      *)
(* through the IV: every ciphertext byte depends on the key, on the        *)
(* plaintext byte and on the previous block.                               *)
(***************************************************************************)
KeyStream(key, j) == key[j] + key[j + IvLen] + j

Pkcs7Pad(text) ==
    LET p == IvLen - (Len(text) % IvLen) IN text \o Bytes(p, p)

RECURSIVE CbcEncryptBlocks(_, _, _)
CbcEncryptBlocks(key, prev, padded) ==
    IF padded = <<>> THEN <<>>
    ELSE LET c == [j \in 1..IvLen |-> (padded[j] + prev[j] + KeyStream(key, j)) % 256]
         IN  c \o CbcEncryptBlocks(key, c, SubSeq(padded, IvLen + 1, Len(padded)))

\* The issuing side of aes_cbc_decrypt.
AesCbcEncrypt(key, iv, text) == CbcEncryptBlocks(key, iv, Pkcs7Pad(text))

RECURSIVE CbcDecryptBlocks(_, _, _)
CbcDecryptBlocks(key, prev, cipher) ==
    IF cipher = <<>> THEN <<>>
    ELSE LET c == SubSeq(cipher, 1, IvLen)
             p == [j \in 1..IvLen |-> (c[j] - prev[j] - KeyStream(key, j)) % 256]
         IN  p \o CbcDecryptBlocks(key, c, SubSeq(cipher, IvLen + 1, Len(cipher)))

\* aes_cbc_decrypt(key, iv, cipher, plain): CryptDecrypt with Final = TRUE
\* needs whole blocks and strips a well-formed padding.
aes_cbc_decrypt(key, iv, cipher, providerOk) ==
    IF ~providerOk \/ cipher = <<>> \/ Len(cipher) % IvLen # 0
    THEN [ok |-> FALSE, plain |-> <<>>]
    ELSE LET padded == CbcDecryptBlocks(key, iv, cipher)
             p == padded[Len(padded)]
         IN  IF p >= 1 /\ p <= IvLen
                /\ \A i \in (Len(padded) - p + 1)..Len(padded) : padded[i] = p
             THEN [ok |-> TRUE, plain |-> SubSeq(padded, 1, Len(padded) - p)]
             ELSE [ok |-> FALSE, plain |-> <<>>]

(***************************************************************************)
(* Text: JSON strings and C-string defaults are sequences of one-character *)
(* strings.                                                                *)
(***************************************************************************)
Digits == <<"0", "1", "2", "3", "4", "5", "6", "7", "8", "9">>

IsDigit(c) == \E d \in 1..10 : Digits[d] = c

DigitVal(c) == (CHOOSE d \in 1..10 : Digits[d] = c) - 1

IsSpace(c) == c \in {" ", "\t", "\n", "\r"}

\* Number of consecutive digits of s from position pos, at most max.
RECURSIVE DigitRun(_, _, _)
DigitRun(s, pos, max) ==
    IF max = 0 \/ pos > Len(s) \/ ~IsDigit(s[pos]) THEN 0
    ELSE 1 + DigitRun(s, pos + 1, max - 1)

\* Value of the cnt digits of s from pos; -1 once it leaves the int range.
IntMax == 2147483647

RECURSIVE DigitsValue(_, _, _, _)
DigitsValue(s, pos, cnt, acc) ==
    IF cnt = 0 THEN acc
    ELSE IF acc > (IntMax - DigitVal(s[pos])) \div 10 THEN -1
    ELSE DigitsValue(s, pos + 1, cnt - 1, acc * 10 + DigitVal(s[pos]))

RECURSIVE SkipSpace(_, _)
SkipSpace(s, pos) ==
    IF pos <= Len(s) /\ IsSpace(s[pos]) THEN SkipSpace(s, pos + 1) ELSE pos

(***************************************************************************)
(* std::get_time(&tm, "%Y-%m-%dT%H:%M:%S"): one numeric field of at most   *)
(* width digits within [lo, hi], then the literal that follows it.         *)
(***************************************************************************)
TimeField(s, pos, width, lo, hi) ==
    LET cnt == DigitRun(s, pos, width)
        val == DigitsValue(s, pos, cnt, 0)
    IN  IF cnt = 0 \/ val < lo \/ val > hi
        THEN [ok |-> FALSE, val |-> 0, next |-> pos]
        ELSE [ok |-> TRUE, val |-> val, next |-> pos + cnt]

Literal(s, pos, c) == pos <= Len(s) /\ s[pos] = c

get_time(s) ==
    LET y == TimeField(s, 1, 4, 0, 9999)
        m == TimeField(s, y.next + 1, 2, 1, 12)
        d == TimeField(s, m.next + 1, 2, 1, 31)
        h == TimeField(s, d.next + 1, 2, 0, 23)
        mi == TimeField(s, h.next + 1, 2, 0, 59)
        se == TimeField(s, mi.next + 1, 2, 0, 60)
        ok == /\ y.ok /\ Literal(s, y.next, "-")
              /\ m.ok /\ Literal(s, m.next, "-")
              /\ d.ok /\ Literal(s, d.next, "T")
              /\ h.ok /\ Literal(s, h.next, ":")
              /\ mi.ok /\ Literal(s, mi.next, ":")
              /\ se.ok
    IN  IF ok
        THEN [fail |-> FALSE, year |-> y.val, mon |-> m.val, mday |-> d.val,
              hour |-> h.val, min |-> mi.val, sec |-> se.val]
        ELSE [fail |-> TRUE, year |-> 0, mon |-> 0, mday |-> 0,
              hour |-> 0, min |-> 0, sec |-> 0]

(***************************************************************************)
(* _mkgmtime: days since 1970-01-01 of a proleptic Gregorian date, and the *)
(* second of the day.  A time_t is kept as the pair [days, sod] because it *)
(* is 64 bits wide; long is 32 bits wide on the platform the decoder       *)
(* builds for, so the cast keeps the low 32 bits, signed.                  *)
(***************************************************************************)
SecondsPerDay == 86400

DaysFromCivil(y, m, d) ==
    LET yy == IF m <= 2 THEN y - 1 ELSE y
        era == yy \div 400
        yoe == yy - era * 400
        mp == IF m > 2 THEN m - 3 ELSE m + 9
        doy == (153 * mp + 2) \div 5 + d - 1
        doe == yoe * 365 + (yoe \div 4) - (yoe \div 100) + doy
    IN  era * 146097 + doe - 719468

mkgmtime(tm) ==
    LET days == DaysFromCivil(tm.year, tm.mon, tm.mday)
        sod == tm.hour * 3600 + tm.min * 60 + tm.sec
    IN  IF days < 0 \/ tm.year > 3000
        THEN [err |-> TRUE, days |-> 0, sod |-> 0]
        ELSE [err |-> FALSE, days |-> days, sod |-> sod]

\* static_cast<long>(time_t): the value modulo 2^32, as a signed number.
\* 86400 = 675 * 128 and 2^32 = 2^25 * 128.
LongOfTime(t) ==
    IF t.err THEN -1
    ELSE LET hi == (t.days * 675 + (t.sod \div 128)) % 33554432
             lo == t.sod % 128
         IN  IF hi >= 16777216 THEN (hi - 33554432) * 128 + lo ELSE hi * 128 + lo

\* parseISODateTime(isoString): 0 when the text does not parse.
parseISODateTime(isoString) ==
    LET tm == get_time(isoString)
    IN  IF tm.fail THEN 0 ELSE LongOfTime(mkgmtime(tm))

(***************************************************************************)
(* std::stoi and std::stod: leading white space, an optional sign, then    *)
(* digits; what follows the number is ignored.  A double is kept in        *)
(* hundredths.                                                             *)
(***************************************************************************)
SignAt(s, pos) == pos <= Len(s) /\ s[pos] \in {"+", "-"}

stoi(str) ==
    LET p0 == SkipSpace(str, 1)
        p1 == IF SignAt(str, p0) THEN p0 + 1 ELSE p0
        cnt == DigitRun(str, p1, Len(str))
        val == DigitsValue(str, p1, cnt, 0)
    IN  IF cnt = 0 \/ val < 0 THEN [throws |-> TRUE, val |-> 0]
        ELSE [throws |-> FALSE,
              val |-> IF SignAt(str, p0) /\ str[p0] = "-" THEN 0 - val ELSE val]

stod(str) ==
    LET p0 == SkipSpace(str, 1)
        p1 == IF SignAt(str, p0) THEN p0 + 1 ELSE p0
        cnt == DigitRun(str, p1, 7)
        ip == DigitsValue(str, p1, cnt, 0)
        dot == Literal(str, p1 + cnt, ".")
        fcnt == IF dot THEN DigitRun(str, p1 + cnt + 1, 2) ELSE 0
        fp == IF fcnt = 0 THEN 0
              ELSE IF fcnt = 1 THEN 10 * DigitVal(str[p1 + cnt + 1])
              ELSE DigitsValue(str, p1 + cnt + 1, 2, 0)
        mag == ip * 100 + fp
    IN  IF cnt = 0 /\ fcnt = 0 THEN [throws |-> TRUE, val |-> 0]
        ELSE [throws |-> FALSE,
              val |-> IF SignAt(str, p0) /\ str[p0] = "-" THEN 0 - mag ELSE mag]

(***************************************************************************)
(* nlohmann::json values.  A member value is a record [t, s, n, b]; the    *)
(* payload is [t, obj] with obj total over PayloadKeys and Absent marking  *)
(* the keys the object does not hold.  Elements of arrays and of nested    *)
(* objects are never read by the decoder and are not kept.                 *)
(***************************************************************************)
JString(str) == [t |-> "string", s |-> str, n |-> 0, b |-> FALSE]
JInteger(num) == [t |-> "integer", s |-> <<>>, n |-> num, b |-> FALSE]
JFloat(hundredths) == [t |-> "float", s |-> <<>>, n |-> hundredths, b |-> FALSE]
JBoolean(bool) == [t |-> "boolean", s |-> <<>>, n |-> 0, b |-> bool]
JNull == [t |-> "null", s |-> <<>>, n |-> 0, b |-> FALSE]
JArray == [t |-> "array", s |-> <<>>, n |-> 0, b |-> FALSE]
JObject == [t |-> "object", s |-> <<>>, n |-> 0, b |-> FALSE]
Absent == [t |-> "absent", s |-> <<>>, n |-> 0, b |-> FALSE]

PayloadKeys ==
    {"accountId", "eaName", "expiry", "count", "ratio", "flag", "note", "tags",
     "limit", "issued", "nonExistentKey"}

NoMembers == [k \in PayloadKeys |-> Absent]

JsonNull == [t |-> "null", obj |-> NoMembers]

JsonObject(members) ==
    [t |-> "object",
     obj |-> [k \in PayloadKeys |-> IF k \in DOMAIN members THEN members[k] ELSE Absent]]

JsonArray == [t |-> "array", obj |-> NoMembers]

\* json::contains(key): false on anything that is not an object.
contains(j, key) == j.t = "object" /\ key \in PayloadKeys /\ j.obj[key].t # "absent"

\* json::operator[](key) on a value that is not const: a null value becomes
\* an object, an object gains the member as null when it lacks it, and any
\* other value throws type_error.
subscript(j, key) ==
    IF j.t \in {"null", "object"}
    THEN [throws |-> FALSE,
          j |-> [t |-> "object",
                 obj |-> IF j.obj[key].t = "absent" THEN [j.obj EXCEPT ![key] = JNull]
                         ELSE j.obj]]
    ELSE [throws |-> TRUE, j |-> j]

\* json::clear(): the value keeps its type and loses its content.
clear(j) == [t |-> j.t, obj |-> NoMembers]

is_string(v) == v.t = "string"
is_number_integer(v) == v.t = "integer"
is_number(v) == v.t \in {"integer", "float"}
is_boolean(v) == v.t = "boolean"

(***************************************************************************)
(* The licenses in circulation: documents, their plaintexts, and the       *)
(* envelopes the issuer builds from them.                                  *)
(***************************************************************************)
Date(y1, y2, y3, y4) ==
    <<y1, y2, y3, y4, "-", "0", "1", "-", "0", "1", "T",
      "0", "0", ":", "0", "0", ":", "0", "0">>

Expiry2030 == Date("2", "0", "3", "0") \o <<".", "0", "0", "0", "Z">>
Expiry1970 == Date("1", "9", "7", "0") \o <<"Z">>
Expiry2110 == Date("2", "1", "1", "0") \o <<"Z">>
Issued2099 == Date("2", "0", "9", "9") \o <<"Z">>

CommonMembers ==
    "accountId" :> JString(<<"1", "2", "3", "4">>)
    @@ "eaName" :> JString(<<"M", "y", "E", "A">>)

Docs ==
    [main |-> JsonObject(CommonMembers
                @@ "expiry" :> JString(Expiry2030)
                @@ "count" :> JInteger(42)
                @@ "ratio" :> JFloat(314)
                @@ "flag" :> JBoolean(TRUE)
                @@ "note" :> JNull
                @@ "tags" :> JArray
                @@ "limit" :> JString(<<"1", "2", "a", "b", "c">>)
                @@ "issued" :> JString(Issued2099)),
     epoch |-> JsonObject(CommonMembers @@ "expiry" :> JString(Expiry1970)),
     y2110 |-> JsonObject(CommonMembers @@ "expiry" :> JString(Expiry2110)),
     noexp |-> JsonObject(CommonMembers @@ "count" :> JInteger(7)),
     expnum |-> JsonObject(CommonMembers @@ "expiry" :> JInteger(20300101)),
     expbad |-> JsonObject(CommonMembers
                  @@ "expiry" :> JString(<<"n", "e", "v", "e", "r">>)),
     odd |-> JsonObject(CommonMembers
               @@ "flag" :> JString(<<"y", "e", "s">>)
               @@ "count" :> JInteger(0)
               @@ "ratio" :> JFloat(0)
               @@ "note" :> JBoolean(FALSE)
               @@ "tags" :> JObject
               @@ "limit" :> JString(<<"-", "7">>)
               @@ "issued" :> JString(Expiry1970)),
     array |-> JsonArray]

DocNames == DOMAIN Docs

(***************************************************************************)
(* JSON text.  Printable ASCII only; the documents of the model are flat   *)
(* objects without escapes in their strings, whose member names are in     *)
(* PayloadKeys, and whose arrays are empty.  The backslash and the backtick *)
(* have a name in place of their character.                                *)
(***************************************************************************)
AsciiChars ==
    <<" ", "!", "\"", "#", "$", "%", "&", "'", "(", ")", "*", "+", ",", "-", ".", "/",
      "0", "1", "2", "3", "4", "5", "6", "7", "8", "9", ":", ";", "<", "=", ">", "?",
      "@", "A", "B", "C", "D", "E", "F", "G", "H", "I", "J", "K", "L", "M", "N", "O",
      "P", "Q", "R", "S", "T", "U", "V", "W", "X", "Y", "Z", "[", "(backslash)", "]", "^", "_",
      "(backtick)", "a", "b", "c", "d", "e", "f", "g", "h", "i", "j", "k", "l", "m", "n", "o",
      "p", "q", "r", "s", "t", "u", "v", "w", "x", "y", "z", "{", "|", "}", "~">>

IsAscii(code) == code >= 32 /\ code <= 126
CharOf(code) == AsciiChars[code - 31]
CodeOf == [c \in {AsciiChars[i] : i \in 1..Len(AsciiChars)} |->
              31 + CHOOSE i \in 1..Len(AsciiChars) : AsciiChars[i] = c]

\* The bytes of a text, and the text of bytes.
TextBytes(str) == [i \in 1..Len(str) |-> CodeOf[str[i]]]
BytesText(b) == [i \in 1..Len(b) |-> CharOf(b[i])]

\* Member names, in the order std::map keeps them.
KeyOrder ==
    <<"accountId", "count", "eaName", "expiry", "flag", "issued", "limit",
      "nonExistentKey", "note", "ratio", "tags">>

KeyChars ==
    [accountId |-> <<"a", "c", "c", "o", "u", "n", "t", "I", "d">>,
     count |-> <<"c", "o", "u", "n", "t">>,
     eaName |-> <<"e", "a", "N", "a", "m", "e">>,
     expiry |-> <<"e", "x", "p", "i", "r", "y">>,
     flag |-> <<"f", "l", "a", "g">>,
     issued |-> <<"i", "s", "s", "u", "e", "d">>,
     limit |-> <<"l", "i", "m", "i", "t">>,
     nonExistentKey |-> <<"n", "o", "n", "E", "x", "i", "s", "t", "e", "n", "t", "K", "e", "y">>,
     note |-> <<"n", "o", "t", "e">>,
     ratio |-> <<"r", "a", "t", "i", "o">>,
     tags |-> <<"t", "a", "g", "s">>]

\* The issuing side: json::dump() of a document.
RECURSIVE NatChars(_)
NatChars(n) ==
    IF n < 10 THEN <<Digits[n + 1]>> ELSE NatChars(n \div 10) \o <<Digits[(n % 10) + 1]>>

IntChars(n) == IF n < 0 THEN <<"-">> \o NatChars(0 - n) ELSE NatChars(n)

HundredthsChars(n) ==
    LET mag == IF n < 0 THEN 0 - n ELSE n
    IN  (IF n < 0 THEN <<"-">> ELSE <<>>) \o NatChars(mag \div 100) \o <<".">>
        \o <<Digits[((mag % 100) \div 10) + 1], Digits[(mag % 10) + 1]>>

Quoted(str) == <<"\"">> \o str \o <<"\"">>

DumpValue(v) ==
    CASE v.t = "string" -> Quoted(v.s)
      [] v.t = "integer" -> IntChars(v.n)
      [] v.t = "float" -> HundredthsChars(v.n)
      [] v.t = "boolean" -> IF v.b THEN <<"t", "r", "u", "e">>
                            ELSE <<"f", "a", "l", "s", "e">>
      [] v.t = "array" -> <<"[", "]">>
      [] v.t = "object" -> <<"{", "}">>
      [] OTHER -> <<"n", "u", "l", "l">>

RECURSIVE DumpMembers(_, _, _)
DumpMembers(obj, i, first) ==
    IF i > Len(KeyOrder) THEN <<>>
    ELSE IF obj[KeyOrder[i]].t = "absent" THEN DumpMembers(obj, i + 1, first)
    ELSE (IF first THEN <<>> ELSE <<",">>)
         \o Quoted(KeyChars[KeyOrder[i]]) \o <<":">> \o DumpValue(obj[KeyOrder[i]])
         \o DumpMembers(obj, i + 1, FALSE)

JsonDump(j) ==
    IF j.t = "object" THEN <<"{">> \o DumpMembers(j.obj, 1, TRUE) \o <<"}">>
    ELSE IF j.t = "array" THEN <<"[", "]">>
    ELSE <<"n", "u", "l", "l">>

\* nlohmann::json::parse: the lexer and the parser, on bytes.
Fail == [ok |-> FALSE, next |-> 0, v |-> Absent]
Parsed(next, v) == [ok |-> TRUE, next |-> next, v |-> v]

MatchAt(s, pos, lit) ==
    pos + Len(lit) - 1 <= Len(s) /\ SubSeq(s, pos, pos + Len(lit) - 1) = TextBytes(lit)

\* A string token starting at the quote at pos.
ParseString(s, pos) ==
    LET ends == {j \in (pos + 1)..Len(s) : s[j] = 34}
    IN  IF ends = {} THEN Fail
        ELSE LET e == CHOOSE j \in ends : \A k \in ends : j <= k
             IN  IF \A j \in (pos + 1)..(e - 1) : IsAscii(s[j]) /\ s[j] # 92
                 THEN Parsed(e + 1, JString(BytesText(SubSeq(s, pos + 1, e - 1))))
                 ELSE Fail

\* Where the number token starting at pos ends.
RECURSIVE NumberEnd(_, _)
NumberEnd(s, pos) ==
    IF pos <= Len(s) /\ (s[pos] \in {45, 46} \/ (s[pos] >= 48 /\ s[pos] <= 57))
    THEN NumberEnd(s, pos + 1) ELSE pos

\* A number token that admits no fraction.
NumberValueIntegerOnly(tok, e, p1, cnt) ==
    LET ip == DigitsValue(tok, p1, cnt, 0)
    IN  IF cnt = 0 \/ ip < 0 \/ Len(tok) # p1 + cnt - 1 THEN Fail
        ELSE Parsed(e, JInteger(IF p1 = 2 THEN 0 - ip ELSE ip))

\* The value of the number token tok, which ends before e, has its first
\* digit at p1 (after the sign, if any) and cnt digits from there: digits, or
\* digits.digits with the fraction kept to two places.  The numbers of the
\* model stay within the int range.
NumberValue(tok, e, p1, cnt) ==
    LET ip == DigitsValue(tok, p1, cnt, 0)
        rest == Len(tok) - (p1 + cnt - 1)
        fcnt == IF rest >= 2 /\ tok[p1 + cnt] = "." THEN DigitRun(tok, p1 + cnt + 1, rest)
                ELSE 0
        fp == IF fcnt = 0 THEN 0
              ELSE IF fcnt = 1 THEN 10 * DigitVal(tok[p1 + cnt + 1])
              ELSE DigitsValue(tok, p1 + cnt + 1, 2, 0)
    IN  IF cnt = 0 \/ ip < 0 THEN Fail
        ELSE IF rest = 0 THEN Parsed(e, JInteger(IF p1 = 2 THEN 0 - ip ELSE ip))
        ELSE IF fcnt >= 1 /\ fcnt = rest - 1
            THEN Parsed(e, JFloat(IF p1 = 2 THEN 0 - (ip * 100 + fp) ELSE ip * 100 + fp))
        ELSE Fail

NumberDigits(tok, e, p1) == NumberValue(tok, e, p1, DigitRun(tok, p1, Len(tok)))

NumberToken(tok, e) == NumberDigits(tok, e, IF tok[1] = "-" THEN 2 ELSE 1)

\* A number token starting at pos.
ParseNumber(s, pos) ==
    NumberToken(BytesText(SubSeq(s, pos, NumberEnd(s, pos) - 1)), NumberEnd(s, pos))

\* A member value: a scalar, an empty array or an empty object.
ParseValue(s, pos) ==
    IF pos > Len(s) THEN Fail
    ELSE IF s[pos] = 34 THEN ParseString(s, pos)
    ELSE IF MatchAt(s, pos, <<"t", "r", "u", "e">>) THEN Parsed(pos + 4, JBoolean(TRUE))
    ELSE IF MatchAt(s, pos, <<"f", "a", "l", "s", "e">>)
        THEN Parsed(pos + 5, JBoolean(FALSE))
    ELSE IF MatchAt(s, pos, <<"n", "u", "l", "l">>) THEN Parsed(pos + 4, JNull)
    ELSE IF MatchAt(s, pos, <<"[", "]">>) THEN Parsed(pos + 2, JArray)
    ELSE IF MatchAt(s, pos, <<"{", "}">>) THEN Parsed(pos + 2, JObject)
    ELSE IF s[pos] = 45 \/ (s[pos] >= 48 /\ s[pos] <= 57) THEN ParseNumber(s, pos)
    ELSE Fail

\* The members of an object from pos, the first character of a name's
\* quote; a repeated name keeps its last value.
RECURSIVE ParseMembers(_, _, _)
ParseMembers(s, pos, obj) ==
    IF pos > Len(s) \/ s[pos] # 34 THEN [ok |-> FALSE, next |-> 0, obj |-> obj]
    ELSE LET name == ParseString(s, pos)
             keys == IF name.ok THEN {k \in PayloadKeys : KeyChars[k] = name.v.s} ELSE {}
             val == IF name.ok /\ MatchAt(s, name.next, <<":">>)
                    THEN ParseValue(s, name.next + 1) ELSE Fail
         IN  IF keys = {} \/ ~val.ok THEN [ok |-> FALSE, next |-> 0, obj |-> obj]
             ELSE LET got == [obj EXCEPT ![CHOOSE k \in keys : TRUE] = val.v]
                  IN  IF MatchAt(s, val.next, <<",">>)
                      THEN ParseMembers(s, val.next + 1, got)
                      ELSE IF MatchAt(s, val.next, <<"}">>)
                          THEN [ok |-> TRUE, next |-> val.next + 1, obj |-> got]
                      ELSE [ok |-> FALSE, next |-> 0, obj |-> obj]

\* nlohmann::json::parse(payloadStr)
JsonParse(text) ==
    LET r == IF MatchAt(text, 1, <<"{", "}">>)
                THEN [ok |-> TRUE, next |-> 3, t |-> "object", obj |-> NoMembers]
             ELSE IF MatchAt(text, 1, <<"{">>)
                THEN LET m == ParseMembers(text, 2, NoMembers)
                     IN  [ok |-> m.ok, next |-> m.next, t |-> "object", obj |-> m.obj]
             ELSE LET v == ParseValue(text, 1)
                  IN  [ok |-> v.ok, next |-> v.next, t |-> v.v.t, obj |-> NoMembers]
    IN  IF r.ok /\ r.next = Len(text) + 1
        THEN [throws |-> FALSE, value |-> [t |-> r.t, obj |-> r.obj]]
        ELSE [throws |-> TRUE, value |-> JsonNull]

\* The plaintext of each document, and a plaintext that is no JSON.
DocText(d) == TextBytes(JsonDump(Docs[d]))

NotJson == TextBytes(<<"{", "\"", "e", "a", "N", "a", "m", "e", "\"", ":", "}">>)

\* Envelope layout: IV || HMAC(key, IV || cipher || accountId) || cipher.
Seal(key, iv, cipher, account) == iv \o MacTag(key, iv \o cipher \o account) \o cipher

Envelope(key, iv, text, account) == Seal(key, iv, AesCbcEncrypt(key, iv, text), account)

IssuerKey == [i \in 1..KeyLen |-> (i * 7 + 3) % 256]
ZeroKey == Bytes(KeyLen, 0)
IssuerIv == [i \in 1..IvLen |-> (i * 11) % 256]
Account1234 == <<49, 50, 51, 52>>
Account9999 == <<57, 57, 57, 57>>

MalformedB64 == <<73, 110, 118, 33>>

MasterKeyInputs ==
    [null |-> NullPtr,
     empty |-> CStr(<<>>),
     malformed |-> CStr(MalformedB64),
     short |-> CStr(Base64Encode(Bytes(IvLen, 9))),
     issuer |-> CStr(Base64Encode(IssuerKey)),
     zero |-> CStr(Base64Encode(ZeroKey))]

IssuedLicense(d) == CStr(Base64Encode(Envelope(IssuerKey, IssuerIv, DocText(d), Account1234)))

LicenseInputs ==
    [null |-> NullPtr,
     empty |-> CStr(<<>>),
     malformed |-> CStr(MalformedB64),
     short40 |-> CStr(Base64Encode(Bytes(40, 5))),
     short47 |-> CStr(Base64Encode(
                     SubSeq(Envelope(IssuerKey, IssuerIv, DocText("main"), Account1234),
                            1, HeaderLen - 1))),
     bare48 |-> CStr(Base64Encode(Bytes(HeaderLen, 0))),
     main |-> IssuedLicense("main"),
     epoch |-> IssuedLicense("epoch"),
     y2110 |-> IssuedLicense("y2110"),
     noexp |-> IssuedLicense("noexp"),
     expnum |-> IssuedLicense("expnum"),
     expbad |-> IssuedLicense("expbad"),
     odd |-> IssuedLicense("odd"),
     array |-> IssuedLicense("array"),
     badjson |-> CStr(Base64Encode(Envelope(IssuerKey, IssuerIv, NotJson, Account1234))),
     ragged |-> CStr(Base64Encode(Seal(IssuerKey, IssuerIv, Bytes(IvLen + 1, 77),
                                       Account1234)))]

AccountInputs ==
    [null |-> NullPtr,
     empty |-> CStr(<<>>),
     a1234 |-> CStr(Account1234),
     a9999 |-> CStr(Account9999)]

(***************************************************************************)
(* LicenseStatus                                                           *)
(***************************************************************************)
Valid == "Valid"
Expired == "Expired"
Invalid == "Invalid"
Tampered == "Tampered"
KeyError == "KeyError"
DecryptionFailed == "DecryptionFailed"
ParseError == "ParseError"

LicenseStatus == {Valid, Expired, Invalid, Tampered, KeyError, DecryptionFailed, ParseError}

(***************************************************************************)
(* Payload accessors, as functions of the instance (isVerified_, payload_).*)
(***************************************************************************)
NullKey == [isNull |-> TRUE, str |-> ""]
Key(str) == [isNull |-> FALSE, str |-> str]

NullDefault == [isNull |-> TRUE, chars |-> <<>>]
Default(chars) == [isNull |-> FALSE, chars |-> chars]

\* std::string(defaultValue ? defaultValue : "")
DefaultString(defaultValue) == IF defaultValue.isNull THEN <<>> ELSE defaultValue.chars

\* getValue without the isVerified_ gate.
getValueUngated(verified, payload, key, defaultValue) ==
    IF key.isNull THEN DefaultString(defaultValue)
    ELSE IF contains(payload, key.str) /\ is_string(payload.obj[key.str])
        THEN payload.obj[key.str].s
    ELSE DefaultString(defaultValue)

getValue(verified, payload, key, defaultValue) ==
    IF ~verified \/ key.isNull THEN DefaultString(defaultValue)
    ELSE IF contains(payload, key.str) /\ is_string(payload.obj[key.str])
        THEN payload.obj[key.str].s
    ELSE DefaultString(defaultValue)

\* getValueAsInt that converts any number, dropping the fraction.
getValueAsIntOfNumber(verified, payload, key, defaultValue) ==
    IF ~verified \/ key.isNull THEN defaultValue
    ELSE IF ~contains(payload, key.str) THEN defaultValue
    ELSE IF is_number_integer(payload.obj[key.str]) THEN payload.obj[key.str].n
    ELSE IF is_number(payload.obj[key.str]) THEN payload.obj[key.str].n \div 100
    ELSE IF is_string(payload.obj[key.str])
        THEN LET r == stoi(payload.obj[key.str].s)
             IN  IF r.throws THEN defaultValue ELSE r.val
    ELSE defaultValue

getValueAsInt(verified, payload, key, defaultValue) ==
    IF ~verified \/ key.isNull THEN defaultValue
    ELSE IF ~contains(payload, key.str) THEN defaultValue
    ELSE IF is_number_integer(payload.obj[key.str]) THEN payload.obj[key.str].n
    ELSE IF is_string(payload.obj[key.str])
        THEN LET r == stoi(payload.obj[key.str].s)
             IN  IF r.throws THEN defaultValue ELSE r.val
    ELSE defaultValue

\* getValueAsBool that reads a string as a boolean only when it is one of
\* the three affirmative texts, and answers the default for any other.
getValueAsBoolOrDefault(verified, payload, key, defaultValue) ==
    IF ~verified \/ key.isNull THEN defaultValue
    ELSE IF ~contains(payload, key.str) THEN defaultValue
    ELSE IF is_boolean(payload.obj[key.str]) THEN payload.obj[key.str].b
    ELSE IF is_string(payload.obj[key.str])
        THEN IF payload.obj[key.str].s \in {<<"t", "r", "u", "e">>, <<"1">>, <<"y", "e", "s">>}
             THEN TRUE ELSE defaultValue
    ELSE IF is_number(payload.obj[key.str]) THEN payload.obj[key.str].n # 0
    ELSE defaultValue

getValueAsBool(verified, payload, key, defaultValue) ==
    IF ~verified \/ key.isNull THEN defaultValue
    ELSE IF ~contains(payload, key.str) THEN defaultValue
    ELSE IF is_boolean(payload.obj[key.str]) THEN payload.obj[key.str].b
    ELSE IF is_string(payload.obj[key.str])
        THEN payload.obj[key.str].s \in {<<"t", "r", "u", "e">>, <<"1">>, <<"y", "e", "s">>}
    ELSE IF is_number(payload.obj[key.str]) THEN payload.obj[key.str].n # 0
    ELSE defaultValue

\* Doubles are in hundredths.
getValueAsDouble(verified, payload, key, defaultValue) ==
    IF ~verified \/ key.isNull THEN defaultValue
    ELSE IF ~contains(payload, key.str) THEN defaultValue
    ELSE IF is_number_integer(payload.obj[key.str]) THEN payload.obj[key.str].n * 100
    ELSE IF is_number(payload.obj[key.str]) THEN payload.obj[key.str].n
    ELSE IF is_string(payload.obj[key.str])
        THEN LET r == stod(payload.obj[key.str].s)
             IN  IF r.throws THEN defaultValue ELSE r.val
    ELSE defaultValue

getValueAsDateTime(verified, payload, key, defaultValue) ==
    IF ~verified \/ key.isNull THEN defaultValue
    ELSE IF contains(payload, key.str) /\ is_string(payload.obj[key.str])
        THEN LET timestamp == parseISODateTime(payload.obj[key.str].s)
             IN  IF timestamp > 0 THEN timestamp ELSE defaultValue
    ELSE defaultValue

\* payload_ after the lookups of a getter that subscripts without asking
\* contains(key) first.
LookupUnguarded(verified, payload, key) ==
    IF ~verified \/ key.isNull THEN payload ELSE subscript(payload, key.str).j

\* payload_ after the lookups of a getter: payload_[key] is evaluated only
\* once payload_.contains(key) has answered true.
Lookup(verified, payload, key) ==
    IF ~verified \/ key.isNull \/ ~contains(payload, key.str) THEN payload
    ELSE subscript(payload, key.str).j

\* hasKey that does not count a member whose value is null.
hasKeyNonNull(verified, payload, key) ==
    IF ~verified \/ key.isNull THEN FALSE
    ELSE contains(payload, key.str) /\ payload.obj[key.str].t # "null"

hasKey(verified, payload, key) ==
    IF ~verified \/ key.isNull THEN FALSE ELSE contains(payload, key.str)

(***************************************************************************)
(* The C interface called with a null decoder: what each function returns  *)
(* before it would reach the instance.  Verify has no default; the others  *)
(* are given defaultValue.                                                 *)
(***************************************************************************)
\* The C interface whose Verify answers KeyError for a null decoder.
NullDecoderAnswerKeyError(op, defaultValue) ==
    CASE op = "Verify" -> KeyError
      [] op = "GetValue" -> DefaultString(defaultValue)
      [] op = "HasKey" -> FALSE
      [] OTHER -> defaultValue

NullDecoderAnswer(op, defaultValue) ==
    CASE op = "Verify" -> Invalid
      [] op = "GetValue" -> DefaultString(defaultValue)
      [] op = "HasKey" -> FALSE
      [] OTHER -> defaultValue

(***************************************************************************)
(* What the host may pass.                                                 *)
(***************************************************************************)
KeyArgs == {NullKey} \cup {Key(k) : k \in PayloadKeys}
StringDefaults == {NullDefault, Default(<<>>), Default(<<"d", "e", "f">>)}
IntDefaults == {0, 42}
DoubleDefaults == {0, 314}
TimeDefaults == {0, 12345}
NullDecoderKeys == {NullKey, Key("eaName")}

(***************************************************************************)
(* The clock: time(nullptr) reads now.  It starts on 2026-01-01 and moves  *)
(* in steps of four years, so that it passes through 2030-01-01T00:00:00.  *)
(***************************************************************************)
MaxTicks == 2

ClockStart == DaysFromCivil(2026, 1, 1) * SecondsPerDay
ClockStep == 1461 * SecondsPerDay

(***************************************************************************)
(* State.                                                                  *)
(*   isVerified_, payload_   the decoder instance                          *)
(*   pc                      where the host is: idle, inside verify (one   *)
(*                           value per step of the pipeline), or holding   *)
(*                           the value a call has just returned            *)
(*   args, masterKey, licenseBin, mac, plain                               *)
(*                           verify's arguments and locals                 *)
(*   status                  the value of the last return statement        *)
(*   calls                   the primitives invoked by the current call    *)
(*   ret                     what the last accessor call returned          *)
(*   now, ticks              the clock                                     *)
(*   hist                    the previous verify call, when recorded       *)
(***************************************************************************)
VARIABLES isVerified_, payload_, pc, args, masterKey, licenseBin, mac, plain,
          status, calls, ret, now, ticks, hist

vars == <<isVerified_, payload_, pc, args, masterKey, licenseBin, mac, plain,
          status, calls, ret, now, ticks, hist>>

NoArgs == [masterKeyB64 |-> "null", licenseB64 |-> "null", accountId |-> "null"]
NoRet == [op |-> "none", key |-> NullKey, dflt |-> 0, val |-> 0]
NoHist == [some |-> FALSE, args |-> NoArgs, status |-> "None", now |-> 0,
           calls |-> <<>>, isVerified_ |-> FALSE, payload_ |-> JsonNull]

\* CSankeyLicenseDecoder::CSankeyLicenseDecoder() : isVerified_(false)
Init ==
    /\ isVerified_ = FALSE
    /\ payload_ = JsonNull
    /\ pc = "idle"
    /\ args = NoArgs
    /\ masterKey = <<>>
    /\ licenseBin = <<>>
    /\ mac = <<>>
    /\ plain = <<>>
    /\ status = "None"
    /\ calls = <<>>
    /\ ret = NoRet
    /\ now = ClockStart
    /\ ticks = 0
    /\ hist = NoHist

locals == <<masterKey, licenseBin, mac, plain>>
instance == <<isVerified_, payload_>>
clock == <<now, ticks>>

\* A return statement of verify.
Return(code) == pc' = "ret" /\ status' = code

Tick ==
    /\ pc = "idle"
    /\ ticks < MaxTicks
    /\ ticks' = ticks + 1
    /\ now' = now + ClockStep
    /\ UNCHANGED <<instance, pc, args, locals, status, calls, ret, hist>>

(***************************************************************************)
(* verify(masterKeyB64, licenseB64, accountId), statement by statement.    *)
(***************************************************************************)
\* verify entered without resetting isVerified_.
VerifyEnterNoReset(mk, lic, acc) ==
    /\ pc = "idle"
    /\ pc' = "args"
    /\ args' = [masterKeyB64 |-> mk, licenseB64 |-> lic, accountId |-> acc]
    /\ payload_' = clear(payload_)
    /\ status' = "Pending"
    /\ calls' = <<>>
    /\ ret' = NoRet
    /\ UNCHANGED <<isVerified_, locals, clock, hist>>

\* isVerified_ = false; payload_.clear();
VerifyEnter(mk, lic, acc) ==
    /\ pc = "idle"
    /\ pc' = "args"
    /\ args' = [masterKeyB64 |-> mk, licenseB64 |-> lic, accountId |-> acc]
    /\ isVerified_' = FALSE
    /\ payload_' = clear(payload_)
    /\ status' = "Pending"
    /\ calls' = <<>>
    /\ ret' = NoRet
    /\ UNCHANGED <<locals, clock, hist>>

\* The argument check without accountId.
VerifyCheckArgsNoAccount ==
    /\ pc = "args"
    /\ IF \/ MasterKeyInputs[args.masterKeyB64].isNull
          \/ LicenseInputs[args.licenseB64].isNull
       THEN Return(Invalid)
       ELSE pc' = "key" /\ UNCHANGED status
    /\ UNCHANGED <<instance, args, locals, calls, ret, clock, hist>>

\* if (!masterKeyB64 || !licenseB64 || !accountId) return Invalid;
VerifyCheckArgs ==
    /\ pc = "args"
    /\ IF \/ MasterKeyInputs[args.masterKeyB64].isNull
          \/ LicenseInputs[args.licenseB64].isNull
          \/ AccountInputs[args.accountId].isNull
       THEN Return(Invalid)
       ELSE pc' = "key" /\ UNCHANGED status
    /\ UNCHANGED <<instance, args, locals, calls, ret, clock, hist>>

\* The key step reporting a key that does not decode as Invalid.
VerifyDecodeKeyInvalid(emptyOk) ==
    /\ pc = "key"
    /\ LET r == base64_decode(MasterKeyInputs[args.masterKeyB64].chars, emptyOk)
       IN  /\ masterKey' = r.out
           /\ IF ~r.ok THEN Return(Invalid)
              ELSE IF Len(r.out) # KeyLen THEN Return(KeyError)
              ELSE pc' = "license" /\ UNCHANGED status
    /\ calls' = Append(calls, "base64_decode")
    /\ UNCHANGED <<instance, args, licenseBin, mac, plain, ret, clock, hist>>

\* base64_decode(masterKeyB64, masterKey); masterKey.size() != 32
VerifyDecodeKey(emptyOk) ==
    /\ pc = "key"
    /\ LET r == base64_decode(MasterKeyInputs[args.masterKeyB64].chars, emptyOk)
       IN  /\ masterKey' = r.out
           /\ IF ~r.ok THEN Return(KeyError)
              ELSE IF Len(r.out) # KeyLen THEN Return(KeyError)
              ELSE pc' = "license" /\ UNCHANGED status
    /\ calls' = Append(calls, "base64_decode")
    /\ UNCHANGED <<instance, args, licenseBin, mac, plain, ret, clock, hist>>

\* The license step without the length check.
VerifyDecodeLicenseAnyLength(emptyOk) ==
    /\ pc = "license"
    /\ LET r == base64_decode(LicenseInputs[args.licenseB64].chars, emptyOk)
       IN  /\ licenseBin' = r.out
           /\ IF ~r.ok THEN Return(Invalid)
              ELSE pc' = "hmac" /\ UNCHANGED status
    /\ calls' = Append(calls, "base64_decode")
    /\ UNCHANGED <<instance, args, masterKey, mac, plain, ret, clock, hist>>

\* base64_decode(licenseB64, licenseBin); licenseBin.size() < 48
VerifyDecodeLicense(emptyOk) ==
    /\ pc = "license"
    /\ LET r == base64_decode(LicenseInputs[args.licenseB64].chars, emptyOk)
       IN  /\ licenseBin' = r.out
           /\ IF ~r.ok THEN Return(Invalid)
              ELSE IF Len(r.out) < HeaderLen THEN Return(Invalid)
              ELSE pc' = "hmac" /\ UNCHANGED status
    /\ calls' = Append(calls, "base64_decode")
    /\ UNCHANGED <<instance, args, masterKey, mac, plain, ret, clock, hist>>

\* Extract components.
EnvelopeIv(bin) == SubSeq(bin, 1, IvLen)
EnvelopeHmac(bin) == SubSeq(bin, IvLen + 1, HeaderLen)
EnvelopeCipher(bin) == SubSeq(bin, HeaderLen + 1, Len(bin))

\* iv || cipher || accountId[0 .. strlen(accountId))
HmacInput(bin, account) == EnvelopeIv(bin) \o EnvelopeCipher(bin) \o account

\* What a call of a provider-backed primitive adds to the log: its name, and
\* a mark when CryptAcquireContext (or a later provider call) failed.
ProviderFailure == "provider failure"
Invoked(primitive, providerOk) ==
    IF providerOk THEN <<primitive>> ELSE <<primitive, ProviderFailure>>

\* if (!hmac_sha256(masterKey, hmacInput, mac)) return DecryptionFailed;
VerifyHmac(providerOk) ==
    /\ pc = "hmac"
    /\ LET r == hmac_sha256(masterKey,
                            HmacInput(licenseBin, AccountInputs[args.accountId].chars),
                            providerOk)
       IN  /\ mac' = r.mac
           /\ IF ~r.ok THEN Return(DecryptionFailed)
              ELSE pc' = "compare" /\ UNCHANGED status
    /\ calls' = calls \o Invoked("hmac_sha256", providerOk)
    /\ UNCHANGED <<instance, args, masterKey, licenseBin, plain, ret, clock, hist>>

\* verify reporting a tag mismatch as Invalid.
VerifyCompareInvalid ==
    /\ pc = "compare"
    /\ IF mac # EnvelopeHmac(licenseBin) THEN Return(Invalid)
       ELSE pc' = "decrypt" /\ UNCHANGED status
    /\ calls' = Append(calls, "memcmp")
    /\ UNCHANGED <<instance, args, locals, ret, clock, hist>>

\* verify without the comparison of the tags.
VerifyCompareSkipped ==
    /\ pc = "compare"
    /\ pc' = "decrypt"
    /\ calls' = Append(calls, "memcmp")
    /\ UNCHANGED <<instance, args, locals, status, ret, clock, hist>>

\* if (memcmp(mac.data(), hmac.data(), 32) != 0) return Tampered;
VerifyCompare ==
    /\ pc = "compare"
    /\ IF mac # EnvelopeHmac(licenseBin) THEN Return(Tampered)
       ELSE pc' = "decrypt" /\ UNCHANGED status
    /\ calls' = Append(calls, "memcmp")
    /\ UNCHANGED <<instance, args, locals, ret, clock, hist>>

\* if (!aes_cbc_decrypt(masterKey, iv, cipher, plain)) return DecryptionFailed;
VerifyDecrypt(providerOk) ==
    /\ pc = "decrypt"
    /\ LET r == aes_cbc_decrypt(masterKey, EnvelopeIv(licenseBin),
                                EnvelopeCipher(licenseBin), providerOk)
       IN  /\ plain' = r.plain
           /\ IF ~r.ok THEN Return(DecryptionFailed)
              ELSE pc' = "parse" /\ UNCHANGED status
    /\ calls' = calls \o Invoked("aes_cbc_decrypt", providerOk)
    /\ UNCHANGED <<instance, args, masterKey, licenseBin, mac, ret, clock, hist>>

\* The parse step parsing into a temporary that is never stored.
VerifyParseDiscarded ==
    /\ pc = "parse"
    /\ IF JsonParse(plain).throws THEN Return(ParseError)
       ELSE pc' = "expiry" /\ UNCHANGED status
    /\ calls' = Append(calls, "json::parse")
    /\ UNCHANGED <<instance, args, locals, ret, clock, hist>>

\* The parse step assigning payload_ only while it is null.
VerifyParseOnce ==
    /\ pc = "parse"
    /\ LET r == JsonParse(plain)
       IN  IF r.throws
           THEN Return(ParseError) /\ UNCHANGED payload_
           ELSE /\ pc' = "expiry"
                /\ payload_' = IF payload_ = JsonNull THEN r.value ELSE payload_
                /\ UNCHANGED status
    /\ calls' = Append(calls, "json::parse")
    /\ UNCHANGED <<isVerified_, args, locals, ret, clock, hist>>

\* try { payload_ = json::parse(payloadStr); } catch (...) { return ParseError; }
VerifyParse ==
    /\ pc = "parse"
    /\ LET r == JsonParse(plain)
       IN  IF r.throws
           THEN Return(ParseError) /\ UNCHANGED payload_
           ELSE pc' = "expiry" /\ payload_' = r.value /\ UNCHANGED status
    /\ calls' = Append(calls, "json::parse")
    /\ UNCHANGED <<isVerified_, args, locals, ret, clock, hist>>

\* The expiry check taking every result of the parser for a timestamp.
IsExpiredNoSentinel(payload, currentTime) ==
    /\ contains(payload, "expiry")
    /\ is_string(payload.obj["expiry"])
    /\ currentTime > parseISODateTime(payload.obj["expiry"].s)

\* The expiry check: whether the call returns Expired at time currentTime.
IsExpired(payload, currentTime) ==
    /\ contains(payload, "expiry")
    /\ is_string(payload.obj["expiry"])
    /\ LET expiryTimestamp == parseISODateTime(payload.obj["expiry"].s)
       IN  expiryTimestamp > 0 /\ currentTime > expiryTimestamp

VerifyExpiry ==
    /\ pc = "expiry"
    /\ IF IsExpired(payload_, now) THEN Return(Expired)
       ELSE pc' = "valid" /\ UNCHANGED status
    /\ calls' = Append(calls, "expiry")
    /\ UNCHANGED <<instance, args, locals, ret, clock, hist>>

\* isVerified_ = true; return Valid;
VerifyValid ==
    /\ pc = "valid"
    /\ isVerified_' = TRUE
    /\ Return(Valid)
    /\ UNCHANGED <<payload_, args, locals, calls, ret, clock, hist>>

\* Control is back in the host: the locals are gone.  record says whether
\* the call is kept in hist.
VerifyReturn(record) ==
    /\ pc = "ret"
    /\ pc' = "idle"
    /\ args' = NoArgs
    /\ masterKey' = <<>>
    /\ licenseBin' = <<>>
    /\ mac' = <<>>
    /\ plain' = <<>>
    /\ calls' = <<>>
    /\ hist' = IF record
               THEN [some |-> TRUE, args |-> args, status |-> status, now |-> now,
                     calls |-> calls, isVerified_ |-> isVerified_,
                     payload_ |-> payload_]
               ELSE NoHist
    /\ UNCHANGED <<instance, status, ret, clock>>

(***************************************************************************)
(* Accessor calls.  The getters reach payload_ through contains(key) and   *)
(* operator[]; hasKey through contains(key) alone.                         *)
(***************************************************************************)
Answer(op, key, dflt, val) ==
    /\ pc = "idle"
    /\ pc' = "got"
    /\ ret' = [op |-> op, key |-> key, dflt |-> dflt, val |-> val]
    /\ payload_' = IF op = "hasKey" THEN payload_ ELSE Lookup(isVerified_, payload_, key)
    /\ UNCHANGED <<isVerified_, args, locals, status, calls, clock, hist>>

GetValue(key, d) == Answer("getValue", key, d, getValue(isVerified_, payload_, key, d))

GetValueAsInt(key, d) ==
    Answer("getValueAsInt", key, d, getValueAsInt(isVerified_, payload_, key, d))

GetValueAsBool(key, d) ==
    Answer("getValueAsBool", key, d, getValueAsBool(isVerified_, payload_, key, d))

GetValueAsDouble(key, d) ==
    Answer("getValueAsDouble", key, d, getValueAsDouble(isVerified_, payload_, key, d))

GetValueAsDateTime(key, d) ==
    Answer("getValueAsDateTime", key, d, getValueAsDateTime(isVerified_, payload_, key, d))

HasKey(key) == Answer("hasKey", key, FALSE, hasKey(isVerified_, payload_, key))

\* A function of the C interface called with a null decoder: no instance
\* is reached.
NullDecoderCall(op, key, dflt) ==
    /\ pc = "idle"
    /\ pc' = "gotnull"
    /\ ret' = [op |-> op, key |-> key, dflt |-> dflt, val |-> NullDecoderAnswer(op, dflt)]
    /\ UNCHANGED <<instance, args, locals, status, calls, clock, hist>>

NullDecoderCalls ==
    \/ NullDecoderCall("Verify", NullKey, 0)
    \/ \E key \in NullDecoderKeys, d \in StringDefaults : NullDecoderCall("GetValue", key, d)
    \/ \E key \in NullDecoderKeys, d \in IntDefaults : NullDecoderCall("GetValueAsInt", key, d)
    \/ \E key \in NullDecoderKeys, d \in BOOLEAN : NullDecoderCall("GetValueAsBool", key, d)
    \/ \E key \in NullDecoderKeys, d \in DoubleDefaults :
            NullDecoderCall("GetValueAsDouble", key, d)
    \/ \E key \in NullDecoderKeys, d \in TimeDefaults :
            NullDecoderCall("GetValueAsDateTime", key, d)
    \/ \E key \in NullDecoderKeys : NullDecoderCall("HasKey", key, FALSE)

\* The host takes the value and carries on.
AccessorReturn ==
    /\ pc \in {"got", "gotnull"}
    /\ pc' = "idle"
    /\ ret' = NoRet
    /\ UNCHANGED <<instance, args, locals, status, calls, clock, hist>>

Accessors(keys) ==
    \/ \E key \in keys, d \in StringDefaults : GetValue(key, d)
    \/ \E key \in keys, d \in IntDefaults : GetValueAsInt(key, d)
    \/ \E key \in keys, d \in BOOLEAN : GetValueAsBool(key, d)
    \/ \E key \in keys, d \in DoubleDefaults : GetValueAsDouble(key, d)
    \/ \E key \in keys, d \in TimeDefaults : GetValueAsDateTime(key, d)
    \/ \E key \in keys : HasKey(key)
    \/ AccessorReturn

VerifySteps ==
    \/ VerifyCheckArgs
    \/ \E emptyOk \in BOOLEAN : VerifyDecodeKey(emptyOk)
    \/ \E emptyOk \in BOOLEAN : VerifyDecodeLicense(emptyOk)
    \/ \E providerOk \in BOOLEAN : VerifyHmac(providerOk)
    \/ VerifyCompare
    \/ \E providerOk \in BOOLEAN : VerifyDecrypt(providerOk)
    \/ VerifyParse
    \/ VerifyExpiry
    \/ VerifyValid

Next ==
    \/ \E mk \in DOMAIN MasterKeyInputs, lic \in DOMAIN LicenseInputs,
          acc \in DOMAIN AccountInputs : VerifyEnter(mk, lic, acc)
    \/ VerifySteps
    \/ VerifyReturn(FALSE)
    \/ Accessors(KeyArgs)
    \/ NullDecoderCalls
    \/ Tick

Spec == Init /\ [][Next]_vars

(***************************************************************************)
(* The same program with the previous verify call kept in hist, for the    *)
(* properties that relate two calls.  The host draws its arguments from    *)
(* fewer values.                                                           *)
(***************************************************************************)
HistoryKeys == {"issuer", "zero"}
HistoryLicenses == {"main", "noexp", "short40"}
HistoryAccounts == {"a1234", "a9999"}
HistoryKeyArgs == {Key("eaName")}

NextHistory ==
    \/ \E mk \in HistoryKeys, lic \in HistoryLicenses, acc \in HistoryAccounts :
            VerifyEnter(mk, lic, acc)
    \/ VerifySteps
    \/ VerifyReturn(TRUE)
    \/ Accessors(HistoryKeyArgs)
    \/ Tick

SpecHistory == Init /\ [][NextHistory]_vars

(***************************************************************************)
(* Properties.                                                             *)
(***************************************************************************)
InCall == pc \in {"args", "key", "license", "hmac", "compare", "decrypt", "parse",
                  "expiry", "valid"}

\* The positions of a primitive in the log of the current call.
CallsOf(primitive) == {i \in 1..Len(calls) : calls[i] = primitive}

\* C1: while the instance is not verified, whatever verify returned last and
\* whatever payload_ still holds, getValue returns the default string (the
\* empty string for a null default), getValueAsInt, getValueAsBool,
\* getValueAsDouble and getValueAsDateTime return the default they were
\* given, and hasKey returns false: both for the call that has just
\* returned and for every key and default the host could pass next.
C1_UnverifiedReturnsDefault ==
    ~isVerified_ =>
        /\ pc = "got" =>
              ret.val = CASE ret.op = "getValue" -> DefaultString(ret.dflt)
                          [] ret.op = "hasKey" -> FALSE
                          [] OTHER -> ret.dflt
        /\ \A key \in KeyArgs :
              /\ \A d \in StringDefaults :
                    getValue(isVerified_, payload_, key, d) = DefaultString(d)
              /\ \A d \in IntDefaults : getValueAsInt(isVerified_, payload_, key, d) = d
              /\ \A d \in BOOLEAN : getValueAsBool(isVerified_, payload_, key, d) = d
              /\ \A d \in DoubleDefaults :
                    getValueAsDouble(isVerified_, payload_, key, d) = d
              /\ \A d \in TimeDefaults :
                    getValueAsDateTime(isVerified_, payload_, key, d) = d
              /\ ~hasKey(isVerified_, payload_, key)

\* C1 witness: verify returned Expired, payload_ still holds eaName, and
\* getValue("eaName", "def") has just returned "def".
C1_Witness ==
    /\ pc = "got"
    /\ ~isVerified_
    /\ status = Expired
    /\ contains(payload_, "eaName")
    /\ ret.op = "getValue"
    /\ ret.key = Key("eaName")
    /\ ret.dflt = Default(<<"d", "e", "f">>)
    /\ ret.val = <<"d", "e", "f">>

\* C2: isVerified_ is false after construction and at every point inside a
\* verify call before its last statement; once a call has returned it is
\* true exactly when that call returned Valid; and it changes only in two
\* steps: to false on entering verify, to true in the step that returns
\* Valid.
C2_FlagState ==
    /\ InCall => ~isVerified_
    /\ pc \in {"ret", "idle", "got"} => (isVerified_ <=> status = Valid)

C2_FlagStep ==
    (isVerified_' # isVerified_) =>
        IF isVerified_'
        THEN pc = "valid" /\ pc' = "ret" /\ status' = Valid
        ELSE pc = "idle" /\ pc' = "args"

C2_VerifiedIffLastValid == []C2_FlagState /\ [][C2_FlagStep]_vars

\* C2 witness: a verify call has just returned Valid with the flag set.
C2_Witness == pc = "ret" /\ status = Valid /\ isVerified_

\* C3: in every verify call aes_cbc_decrypt is invoked only after memcmp
\* found the computed tag equal to the envelope's, and json::parse and the
\* expiry evaluation only after aes_cbc_decrypt succeeded on that envelope.
C3_IntegrityBeforeDecrypt ==
    /\ \A i \in CallsOf("aes_cbc_decrypt") :
          /\ \E j \in CallsOf("memcmp") : j < i
          /\ \E j \in CallsOf("hmac_sha256") : j < i
          /\ mac = EnvelopeHmac(licenseBin)
          /\ mac = MacTag(masterKey,
                          HmacInput(licenseBin, AccountInputs[args.accountId].chars))
    /\ \A i \in CallsOf("json::parse") \cup CallsOf("expiry") :
          /\ \E j \in CallsOf("aes_cbc_decrypt") : j < i
          /\ ProviderFailure \notin {calls[k] : k \in 1..i}
          /\ aes_cbc_decrypt(masterKey, EnvelopeIv(licenseBin),
                             EnvelopeCipher(licenseBin), TRUE)
                = [ok |-> TRUE, plain |-> plain]
    /\ \A i \in CallsOf("expiry") : \E j \in CallsOf("json::parse") : j < i
    /\ pc \in {"decrypt", "parse", "expiry", "valid"} => mac = EnvelopeHmac(licenseBin)

\* C3 witness: a call that went through every step, in order.
C3_Witness ==
    /\ pc = "ret"
    /\ status = Expired
    /\ calls = <<"base64_decode", "base64_decode", "hmac_sha256", "memcmp",
                 "aes_cbc_decrypt", "json::parse", "expiry">>

\* The arguments of the current call, as C strings.
ArgKey == MasterKeyInputs[args.masterKeyB64]
ArgLicense == LicenseInputs[args.licenseB64]
ArgAccount == AccountInputs[args.accountId]

\* A master key that decodes to 32 bytes.
IsKey32(mk) ==
    /\ ~MasterKeyInputs[mk].isNull
    /\ LET r == base64_decode(MasterKeyInputs[mk].chars, FALSE)
       IN  r.ok /\ Len(r.out) = KeyLen

\* The current call repeats the license of the previous call, which
\* returned Valid, with another 32-byte master key or another account id.
WrongKeyOrAccount ==
    /\ hist.some
    /\ hist.status = Valid
    /\ args.licenseB64 = hist.args.licenseB64
    /\ IsKey32(args.masterKeyB64)
    /\ ~ArgAccount.isNull
    /\ \/ base64_decode(ArgKey.chars, FALSE).out
            # base64_decode(MasterKeyInputs[hist.args.masterKeyB64].chars, FALSE).out
       \/ ArgAccount.chars # AccountInputs[hist.args.accountId].chars

\* C4 as claimed: the repeated call returns Tampered and leaves the instance
\* unverified, whatever the provider does.
C4_WrongKeyOrAccountTampered ==
    pc = "ret" /\ WrongKeyOrAccount => status = Tampered /\ ~isVerified_

\* C4: an envelope that verified as Valid, presented again with another
\* 32-byte master key or another account id, is Tampered and leaves the
\* instance unverified, provided hmac_sha256 itself succeeds; when the
\* provider fails there the call returns DecryptionFailed.
C4_WrongKeyOrAccountTamperedUnlessProviderFails ==
    pc = "ret" /\ WrongKeyOrAccount =>
        /\ ~isVerified_
        /\ IF ProviderFailure \in {calls[i] : i \in 1..Len(calls)}
           THEN status = DecryptionFailed
           ELSE status = Tampered

\* C4 witness: Valid under the issuer's key, then Tampered under another.
C4_Witness ==
    /\ pc = "ret"
    /\ WrongKeyOrAccount
    /\ hist.args.masterKeyB64 = "issuer"
    /\ args.masterKeyB64 = "zero"
    /\ args.accountId = hist.args.accountId
    /\ status = Tampered

\* A C string that is null or empty.
NullOrEmpty(cstr) == cstr.isNull \/ cstr.chars = <<>>

\* C5 as claimed: a null or empty argument makes verify return Invalid
\* before any base64 decoding or crypto step.
C5_NullOrEmptyInvalid ==
    pc = "ret" /\ (NullOrEmpty(ArgKey) \/ NullOrEmpty(ArgLicense) \/ NullOrEmpty(ArgAccount)) =>
        status = Invalid /\ calls = <<>>

\* C5: a null argument makes verify return Invalid before any base64
\* decoding or crypto step.  (Empty strings are not rejected there.)
C5_NullInvalid ==
    pc = "ret" /\ (ArgKey.isNull \/ ArgLicense.isNull \/ ArgAccount.isNull) =>
        status = Invalid /\ calls = <<>>

\* C5 witness: a call with a good key and license and a null account id.
C5_Witness ==
    /\ pc = "ret"
    /\ args = [masterKeyB64 |-> "issuer", licenseB64 |-> "main", accountId |-> "null"]
    /\ status = Invalid
    /\ calls = <<>>

\* Text that is not base64: it holds a character that is neither in the
\* alphabet, nor '=', nor white space.
Malformed(cstr) ==
    /\ ~cstr.isNull
    /\ \E i \in 1..Len(cstr.chars) :
          /\ B64Val(cstr.chars[i]) < 0
          /\ cstr.chars[i] \notin {PadChar, 9, 10, 13, 32}

\* C6 as claimed: a malformed master key gives KeyError; a malformed license
\* with a 32-byte key gives Invalid.
C6_MalformedBase64 ==
    pc = "ret" =>
        /\ Malformed(ArgKey) => status = KeyError
        /\ Malformed(ArgLicense) /\ IsKey32(args.masterKeyB64) => status = Invalid

\* C6: when no argument is null, a malformed master key gives KeyError and
\* a malformed license with a 32-byte key gives Invalid; with a null
\* argument the call returns Invalid; and in no case does a call with a
\* malformed key or license reach hmac_sha256, so it returns neither
\* Tampered nor DecryptionFailed.
C6_MalformedBase64WhenPresent ==
    pc = "ret" /\ (Malformed(ArgKey) \/ Malformed(ArgLicense)) =>
        /\ status = IF ArgKey.isNull \/ ArgLicense.isNull \/ ArgAccount.isNull
                       THEN Invalid
                    ELSE IF Malformed(ArgKey) THEN KeyError
                    ELSE IF IsKey32(args.masterKeyB64) THEN Invalid
                    ELSE KeyError
        /\ status \notin {Tampered, DecryptionFailed}
        /\ CallsOf("hmac_sha256") = {}

\* C6 witness: a malformed license under the issuer's key.
C6_Witness ==
    /\ pc = "ret"
    /\ args = [masterKeyB64 |-> "issuer", licenseB64 |-> "malformed",
               accountId |-> "a1234"]
    /\ status = Invalid
    /\ calls = <<"base64_decode", "base64_decode">>

\* A license whose text decodes to fewer than 48 bytes.
ShortLicense(cstr) ==
    /\ ~cstr.isNull
    /\ cstr.chars # <<>>
    /\ LET r == base64_decode(cstr.chars, FALSE)
       IN  r.ok /\ Len(r.out) < HeaderLen

NoCrypto == CallsOf("hmac_sha256") = {} /\ CallsOf("aes_cbc_decrypt") = {}

\* C7 as claimed: a license shorter than 48 bytes gives Invalid without
\* hmac_sha256 or aes_cbc_decrypt.
C7_ShortLicenseInvalid ==
    pc = "ret" /\ ShortLicense(ArgLicense) => status = Invalid /\ NoCrypto

\* C7: a license shorter than 48 bytes never gets to hmac_sha256 or
\* aes_cbc_decrypt, and the call returns Invalid unless the master key,
\* which is decoded first, is rejected with KeyError.
C7_ShortLicenseNoCrypto ==
    /\ InCall /\ pc \notin {"args", "key", "license"} => Len(licenseBin) >= HeaderLen
    /\ pc = "ret" /\ ShortLicense(ArgLicense) =>
          /\ NoCrypto
          /\ status = IF ArgKey.isNull \/ ArgAccount.isNull THEN Invalid
                      ELSE IF IsKey32(args.masterKeyB64) THEN Invalid
                      ELSE KeyError

\* C7 witness: the 40-byte license under the issuer's key.
C7_Witness ==
    /\ pc = "ret"
    /\ args = [masterKeyB64 |-> "issuer", licenseB64 |-> "short40",
               accountId |-> "a1234"]
    /\ Len(licenseBin) = 40
    /\ status = Invalid

\* The current call authenticated its envelope, decrypted it and parsed the
\* plaintext: the expiry evaluation is all that is left to decide.
AuthenticAndParsed ==
    /\ pc = "ret"
    /\ Len(masterKey) = KeyLen
    /\ Len(licenseBin) >= HeaderLen
    /\ CallsOf("memcmp") # {}
    /\ MacTag(masterKey, HmacInput(licenseBin, ArgAccount.chars)) = EnvelopeHmac(licenseBin)
    /\ CallsOf("json::parse") # {}
    /\ ~JsonParse(plain).throws
    /\ payload_ = JsonParse(plain).value

HasStringExpiry == contains(payload_, "expiry") /\ is_string(payload_.obj["expiry"])

\* The instant the expiry text denotes, when it denotes one.
ExpiryTime == mkgmtime(get_time(payload_.obj["expiry"].s))
ExpiryDenotesTime == ~get_time(payload_.obj["expiry"].s).fail /\ ~ExpiryTime.err

\* t, a time_t kept as [days, sod], is strictly before the second n.
Before(t, n) ==
    \/ t.days < n \div SecondsPerDay
    \/ t.days = n \div SecondsPerDay /\ t.sod < n % SecondsPerDay

\* C8 as claimed: an authenticated envelope whose expiry text denotes an
\* instant is Expired exactly when that instant is strictly before the
\* current time, whatever the instant, the epoch included.
C8_ExpiredIffBeforeNow ==
    AuthenticAndParsed /\ HasStringExpiry /\ ExpiryDenotesTime =>
        (status = Expired <=> Before(ExpiryTime, now))

\* C9: an authenticated envelope whose payload parsed and has no expiry
\* member, or one that is not a string, or one whose text does not parse,
\* is Valid and verified at every current time.
C9_NoExpiryValid ==
    /\ AuthenticAndParsed
    /\ \/ ~contains(payload_, "expiry")
       \/ ~is_string(payload_.obj["expiry"])
       \/ get_time(payload_.obj["expiry"].s).fail
    => status = Valid /\ isVerified_

\* C9 witness: the license whose expiry is the text "never", verified
\* after the clock has moved twice.
C9_Witness ==
    /\ AuthenticAndParsed
    /\ args.licenseB64 = "expbad"
    /\ ticks = MaxTicks
    /\ status = Valid

\* What every accessor answers on an instance in the given state.
Answers(verified, payload) ==
    [key \in KeyArgs |->
        <<[d \in StringDefaults |-> getValue(verified, payload, key, d)],
          [d \in IntDefaults |-> getValueAsInt(verified, payload, key, d)],
          [d \in BOOLEAN |-> getValueAsBool(verified, payload, key, d)],
          [d \in DoubleDefaults |-> getValueAsDouble(verified, payload, key, d)],
          [d \in TimeDefaults |-> getValueAsDateTime(verified, payload, key, d)],
          hasKey(verified, payload, key)>>]

\* The current call repeats the arguments of the call before it.
Repeated == pc = "ret" /\ hist.some /\ args = hist.args

SameOutcome ==
    /\ status = hist.status
    /\ Answers(isVerified_, payload_) = Answers(hist.isVerified_, hist.payload_)

Log(c) == {c[i] : i \in 1..Len(c)}

\* C10 as claimed: a repeated call returns what the call before it
\* returned and leaves every accessor answering the same.
C10_RepeatedCallSameOutcome == Repeated => SameOutcome

\* C10: a repeated call returns what the call before it returned and leaves
\* every accessor answering the same, when the clock reads the same in both
\* calls and the provider fails in neither.
C10_RepeatedCallSameOutcomeAtSameTime ==
    /\ Repeated
    /\ now = hist.now
    /\ ProviderFailure \notin Log(calls) \cup Log(hist.calls)
    => SameOutcome

\* C10 witness: two Valid calls in a row with the same arguments.
C10_Witness ==
    /\ Repeated
    /\ now = hist.now
    /\ status = Valid
    /\ hist.status = Valid
    /\ hasKey(isVerified_, payload_, Key("eaName"))

\* The current call returned Valid right after a call that returned Valid.
ValidAfterValid == pc = "ret" /\ hist.some /\ hist.status = Valid /\ status = Valid

\* C11: after a Valid verify that follows a Valid verify, payload_ is the
\* document of the second license and nothing else: every accessor answers
\* as on that document alone, and a key the first document had and the
\* second has not yields the default and hasKey false.
C11_PayloadReplaced ==
    ValidAfterValid =>
        /\ payload_ = JsonParse(plain).value
        /\ Answers(isVerified_, payload_) = Answers(TRUE, JsonParse(plain).value)
        /\ \A key \in KeyArgs \ {NullKey} :
              contains(hist.payload_, key.str) /\ ~contains(JsonParse(plain).value, key.str)
              => /\ ~hasKey(isVerified_, payload_, key)
                 /\ \A d \in StringDefaults :
                       getValue(isVerified_, payload_, key, d) = DefaultString(d)
                 /\ \A d \in IntDefaults :
                       getValueAsInt(isVerified_, payload_, key, d) = d
                 /\ \A d \in BOOLEAN : getValueAsBool(isVerified_, payload_, key, d) = d
                 /\ \A d \in DoubleDefaults :
                       getValueAsDouble(isVerified_, payload_, key, d) = d
                 /\ \A d \in TimeDefaults :
                       getValueAsDateTime(isVerified_, payload_, key, d) = d

\* C11 witness: the license with expiry, flag and ratio, then the license
\* without them, both Valid.
C11_Witness ==
    /\ ValidAfterValid
    /\ hist.args.licenseB64 = "main"
    /\ args.licenseB64 = "noexp"
    /\ contains(hist.payload_, "expiry")
    /\ ~contains(payload_, "expiry")
    /\ payload_.obj["count"] = JInteger(7)

\* The call that returns is verify on a license the issuer made from a JSON
\* object, with the issuer's key and the account it was issued to.
ObjectDocNames == {d \in DocNames : Docs[d].t = "object"}

Issued ==
    /\ pc = "ret"
    /\ args.masterKeyB64 = "issuer"
    /\ args.licenseB64 \in ObjectDocNames
    /\ args.accountId = "a1234"

Original == Docs[args.licenseB64]

\* Every member of doc comes back from the getter of its type, whatever the
\* default passed along.
OriginalReturned(doc) ==
    \A k \in PayloadKeys :
        LET v == doc.obj[k]
        IN  /\ v.t = "string" =>
                  \A d \in StringDefaults : getValue(isVerified_, payload_, Key(k), d) = v.s
            /\ v.t = "integer" =>
                  \A d \in IntDefaults : getValueAsInt(isVerified_, payload_, Key(k), d) = v.n
            /\ v.t = "boolean" =>
                  \A d \in BOOLEAN : getValueAsBool(isVerified_, payload_, Key(k), d) = v.b
            /\ v.t \in {"integer", "float"} =>
                  \A d \in DoubleDefaults :
                      getValueAsDouble(isVerified_, payload_, Key(k), d)
                          = IF v.t = "integer" THEN v.n * 100 ELSE v.n

\* C12 as claimed: verify on an issued license returns Valid, whatever the
\* payload and the current time, and every member is returned by the getter
\* of its type.
C12_RoundTrip == Issued => status = Valid /\ OriginalReturned(Original)

\* C12: when no platform call fails, verify on an issued license returns
\* Expired if the expiry check of the decoder fires on the original payload
\* at the current time and Valid otherwise; when it returns Valid the
\* instance is verified, holds the original payload, and every member is
\* returned by the getter of its type rather than the default.
C12_RoundTripUnlessExpired ==
    Issued /\ CallsOf(ProviderFailure) = {} =>
        /\ status = (IF IsExpired(Original, now) THEN Expired ELSE Valid)
        /\ status = Valid =>
              isVerified_ /\ payload_ = Original /\ OriginalReturned(Original)

\* C12 witness: the license with members of every type, verified Valid; its
\* integer 42 and its number 3.14 come back against the default 0.
C12_Witness ==
    /\ Issued
    /\ args.licenseB64 = "main"
    /\ status = Valid
    /\ getValueAsInt(isVerified_, payload_, Key("count"), 0) = 42
    /\ getValueAsDouble(isVerified_, payload_, Key("ratio"), 0) = 314
    /\ getValue(isVerified_, payload_, Key("eaName"), NullDefault) = <<"M", "y", "E", "A">>
    /\ getValueAsBool(isVerified_, payload_, Key("flag"), FALSE)

\* A step in which the host calls an accessor and the accessor returns.
AccessorCall == pc = "idle" /\ pc' = "got"

\* What came back is a value of the accessor's return type.
ReturnsValue(r) ==
    CASE r.op = "getValue" -> r.val \in Seq(STRING)
      [] r.op \in {"getValueAsBool", "hasKey"} -> r.val \in BOOLEAN
      [] OTHER -> r.val \in Int

\* C13: every accessor call, in every state the decoder can be in and for
\* every key, null, present or absent, returns a value of its type and
\* leaves isVerified_ and payload_ as they were; a key the payload lacked
\* before the call is still lacking after it.
C13_AccessorFrame ==
    [][AccessorCall =>
          /\ ReturnsValue(ret')
          /\ isVerified_' = isVerified_
          /\ payload_' = payload_
          /\ \A k \in PayloadKeys : ~contains(payload_, k) => ~contains(payload_', k)]_vars

\* C13 witness: a verified instance has just answered getValueAsInt for a
\* key its payload does not hold, and still does not hold it.
C13_Witness ==
    /\ pc = "got"
    /\ isVerified_
    /\ ret.op = "getValueAsInt"
    /\ ret.key = Key("nonExistentKey")
    /\ ret.val = ret.dflt
    /\ payload_.t = "object"
    /\ payload_.obj["nonExistentKey"] = Absent

\* The names of the members of the payload when it is an object.
Members(j) == IF j.t = "object" THEN {k \in PayloadKeys : j.obj[k] # Absent} ELSE {}

IsMember(j, key) == ~key.isNull /\ key.str \in Members(j)

\* C14: on a verified instance hasKey answers true exactly for the names of
\* the members of the payload object, whatever the member's value, null
\* included, and false for every other key: both for the call that has just
\* returned and for every key the host could pass next.
C14_HasKeyIffMember ==
    isVerified_ =>
        /\ pc = "got" /\ ret.op = "hasKey" => ret.val = IsMember(payload_, ret.key)
        /\ \A key \in KeyArgs : hasKey(isVerified_, payload_, key) = IsMember(payload_, key)

\* C14 witness: a verified instance has answered true for the member whose
\* value is null, and would answer false for a name the payload lacks.
C14_Witness ==
    /\ pc = "got"
    /\ isVerified_
    /\ ret.op = "hasKey"
    /\ ret.key = Key("note")
    /\ payload_.obj["note"] = JNull
    /\ ret.val = TRUE
    /\ ~hasKey(isVerified_, payload_, Key("nonExistentKey"))

\* What C15 says getBool returns for a member value v and a default d.
BoolOf(v, d) ==
    CASE v.t = "boolean" -> v.b
      [] v.t = "string" -> v.s \in {<<"t", "r", "u", "e">>, <<"1">>, <<"y", "e", "s">>}
      [] v.t \in {"integer", "float"} -> v.n # 0
      [] OTHER -> d

\* C15: on a verified instance getValueAsBool returns the value of a
\* boolean member; for a string member, true when the text is exactly
\* "true", "1" or "yes" and false otherwise, never the default; for a number
\* member, whether it differs from zero; and the default for a member that
\* is null, an array or an object, and for a key that is no member.
C15_GetBool ==
    isVerified_ =>
        /\ pc = "got" /\ ret.op = "getValueAsBool" =>
              ret.val = IF IsMember(payload_, ret.key)
                        THEN BoolOf(payload_.obj[ret.key.str], ret.dflt) ELSE ret.dflt
        /\ \A key \in KeyArgs, d \in BOOLEAN :
              getValueAsBool(isVerified_, payload_, key, d)
                  = IF IsMember(payload_, key) THEN BoolOf(payload_.obj[key.str], d) ELSE d

\* C15 witness: the member "flag" holds the string "yes" and has been read
\* as true against the default false; in the same payload the string "MyEA"
\* reads as false against the default true, the numbers 0 and 0.00 read as
\* false, the boolean false as false, and the object as the default.
C15_Witness ==
    /\ pc = "got"
    /\ isVerified_
    /\ ret.op = "getValueAsBool"
    /\ ret.key = Key("flag")
    /\ ret.dflt = FALSE
    /\ ret.val = TRUE
    /\ payload_.obj["flag"] = JString(<<"y", "e", "s">>)
    /\ ~getValueAsBool(isVerified_, payload_, Key("eaName"), TRUE)
    /\ ~getValueAsBool(isVerified_, payload_, Key("count"), TRUE)
    /\ ~getValueAsBool(isVerified_, payload_, Key("ratio"), TRUE)
    /\ ~getValueAsBool(isVerified_, payload_, Key("note"), TRUE)
    /\ getValueAsBool(isVerified_, payload_, Key("tags"), TRUE)

\* What C16 says getInt returns for a member value v and a default d; a
\* string parses as an integer when std::stoi accepts it.
IntOf(v, d) ==
    CASE v.t = "integer" -> v.n
      [] v.t = "string" -> IF stoi(v.s).throws THEN d ELSE stoi(v.s).val
      [] OTHER -> d

ParsesAsTime(str) == ~get_time(str).fail /\ ~mkgmtime(get_time(str)).err

\* The long r is the number of seconds from the epoch to the instant t.
SecondsTo(r, t) ==
    r >= 0 /\ r \div SecondsPerDay = t.days /\ r % SecondsPerDay = t.sod

\* C17 as claimed: on a verified instance getValueAsDateTime returns the
\* epoch seconds of the instant whenever the key is a member, its value is
\* a string and the text parses, the epoch itself included, and the default
\* in every other case.
C17_GetDateTime ==
    isVerified_ =>
        \A key \in KeyArgs, d \in TimeDefaults :
            LET r == getValueAsDateTime(isVerified_, payload_, key, d)
            IN  IF /\ IsMember(payload_, key)
                   /\ is_string(payload_.obj[key.str])
                   /\ ParsesAsTime(payload_.obj[key.str].s)
                THEN SecondsTo(r, mkgmtime(get_time(payload_.obj[key.str].s)))
                ELSE r = d

\* What a getter gives back as "the default": the default string, or the
\* empty string when the default is a null pointer; false for hasKey.
DefaultAnswer(op, dflt) ==
    CASE op \in {"getValue", "GetValue"} -> DefaultString(dflt)
      [] op \in {"hasKey", "HasKey"} -> FALSE
      [] OTHER -> dflt

C18_NullState ==
    /\ pc = "gotnull" =>
          ret.val = IF ret.op = "Verify" THEN Invalid ELSE DefaultAnswer(ret.op, ret.dflt)
    /\ pc = "got" /\ ret.key.isNull => ret.val = DefaultAnswer(ret.op, ret.dflt)
    /\ \A d \in StringDefaults : getValue(isVerified_, payload_, NullKey, d) = DefaultString(d)
    /\ \A d \in IntDefaults : getValueAsInt(isVerified_, payload_, NullKey, d) = d
    /\ \A d \in BOOLEAN : getValueAsBool(isVerified_, payload_, NullKey, d) = d
    /\ \A d \in DoubleDefaults : getValueAsDouble(isVerified_, payload_, NullKey, d) = d
    /\ \A d \in TimeDefaults : getValueAsDateTime(isVerified_, payload_, NullKey, d) = d
    /\ ~hasKey(isVerified_, payload_, NullKey)

C18_NullStep ==
    \/ pc' = "gotnull"
    \/ pc' = "got" /\ ret'.key.isNull
    => pc = "idle" /\ UNCHANGED <<isVerified_, payload_, status>>

\* C18: Verify on a null decoder returns Invalid; every getter called on a
\* null decoder, or on an instance with a null key, returns the default it
\* was given (the empty string for a null default string) and HasKey
\* returns false, in every state the instance can be in; such a call
\* returns in one step and leaves the instance as it was.
C18_NullHandleOrKey == []C18_NullState /\ [][C18_NullStep]_vars

\* C18 witness: Verify on a null decoder has answered Invalid while the
\* instance is verified and holds its payload.
C18_Witness ==
    /\ pc = "gotnull"
    /\ ret.op = "Verify"
    /\ ret.val = Invalid
    /\ isVerified_
    /\ status = Valid
    /\ contains(payload_, "eaName")
    /\ getValue(isVerified_, payload_, NullKey, Default(<<"d", "e", "f">>)) = <<"d", "e", "f">>

\* The call of primitive recorded in the log of the current call failed in
\* the crypto provider.
FailedIn(primitive) ==
    \E i \in 1..(Len(calls) - 1) : calls[i] = primitive /\ calls[i + 1] = ProviderFailure

\* The payload has a string expiry that denotes an instant strictly before
\* the second n.
ExpiryInPast(payload, n) ==
    /\ contains(payload, "expiry")
    /\ is_string(payload.obj["expiry"])
    /\ ParsesAsTime(payload.obj["expiry"].s)
    /\ Before(mkgmtime(get_time(payload.obj["expiry"].s)), n)

\* The code of the first failing check, in the order of the claim, worked
\* out from the arguments of the call, the provider failures it met and the
\* current time.
FirstFailingCheck ==
    LET key == base64_decode(ArgKey.chars, FALSE)
        lic == base64_decode(ArgLicense.chars, FALSE)
        text == aes_cbc_decrypt(key.out, EnvelopeIv(lic.out), EnvelopeCipher(lic.out),
                                ~FailedIn("aes_cbc_decrypt"))
    IN  IF ArgKey.isNull \/ ArgLicense.isNull \/ ArgAccount.isNull THEN Invalid
        ELSE IF ~key.ok \/ Len(key.out) # KeyLen THEN KeyError
        ELSE IF ~lic.ok \/ Len(lic.out) < HeaderLen THEN Invalid
        ELSE IF FailedIn("hmac_sha256") THEN DecryptionFailed
        ELSE IF MacTag(key.out, HmacInput(lic.out, ArgAccount.chars)) # EnvelopeHmac(lic.out)
            THEN Tampered
        ELSE IF ~text.ok THEN DecryptionFailed
        ELSE IF JsonParse(text.plain).throws THEN ParseError
        ELSE IF ExpiryInPast(JsonParse(text.plain).value, now) THEN Expired
        ELSE Valid

\* C19 as claimed: a verify call returns one of the seven codes, the code of
\* the first failing check in the order missing input, master key, license,
\* HMAC provider, MAC comparison, decryption, JSON parse, expiry in the
\* past, and Valid when no check fails.
C19_FirstFailingCheck ==
    pc = "ret" => status \in LicenseStatus /\ status = FirstFailingCheck

\* The stored payload holds no member.
EmptyPayload(j) == \A k \in PayloadKeys : j.obj[k] = Absent

\* C20 as claimed: whenever no call is running and the instance is not
\* verified, after verify returned Expired included, the stored payload is
\* empty.
C20_PayloadOnlyWhenValid ==
    ~InCall /\ ~isVerified_ => EmptyPayload(payload_)

=============================================================================
